---- MODULE Spec2Model ----
(***************************************************************************)
(* Model of src/extension.js: the SearchProvider of the "code open recent" *)
(* GNOME Shell extension.                                                  *)
(*                                                                         *)
(* Strings are sequences of one-character strings, so that                 *)
(* String.prototype.includes is a real substring test.  The provider's     *)
(* methods run on one JavaScript event loop: the synchronous part of a     *)
(* method is one action, every promise reaction (then/catch callback) is a *)
(* job of the FIFO microtask queue and runs as an action of its own.       *)
(***************************************************************************)
EXTENDS Integers, Sequences, FiniteSets, TLC

VARIABLES
    historyEntries,   \* this._historyEntries
    calls,            \* log of getInitialResultSet/getSubsearchResultSet calls
    jobs,             \* promise reaction jobs not yet run, in FIFO order
    host,             \* the last synchronous host call and its outcome
    invoked           \* number of provider methods invoked so far

vars == <<historyEntries, calls, jobs, host, invoked>>

----------------------------------------------------------------------------
\* Bounds of the model.

MaxCalls == 2     \* provider method invocations in one behaviour
MaxRecs == 2      \* length of the store's entries list
MaxTerms == 2     \* number of search terms
MaxIds == 2       \* length of an identifier list handed in by the host
MaxN == 3         \* largest maxResults

----------------------------------------------------------------------------
\* Helpers.

Min(a, b) == IF a < b THEN a ELSE b

Max(a, b) == IF a > b THEN a ELSE b

SeqsUpTo(S, n) == UNION {[1..k -> S] : k \in 0..n}

\* "local", the literal of lines 238-239, as a string of the model.
Local == <<"l", "o", "c", "a", "l">>

\* String.prototype.includes: term occurs in s as a contiguous substring.
Includes(s, term) ==
    \E i \in 1..(Len(s) - Len(term) + 1) :
        SubSeq(s, i, i + Len(term) - 1) = term

\* Array.prototype.slice(start, end), negative indices counted from the end.
Slice(arr, start, end) ==
    LET len == Len(arr)
        k == IF start < 0 THEN Max(len + start, 0) ELSE Min(start, len)
        f == IF end < 0 THEN Max(len + end, 0) ELSE Min(end, len)
    IN  SubSeq(arr, k + 1, f)

\* entries.map((entry) => entry.uri)
Uris(entries) == [i \in 1..Len(entries) |-> entries[i].uri]

----------------------------------------------------------------------------
\* The store: the decoded value of history.recentlyOpenedPathsList.

\* A record of the entries list: {folderUri?, label?, remoteAuthority?, fileUri?}
Rec(hasF, f, hasL, l, hasR, r, file) ==
    [hasFolderUri |-> hasF, folderUri |-> f,
     hasLabel |-> hasL, label |-> l,
     hasRemoteAuthority |-> hasR, remoteAuthority |-> r,
     fileUri |-> file]

RecordUniverse ==
    { Rec(TRUE, <<"a", "b">>, TRUE, <<"A">>, FALSE, <<>>, <<>>),
      Rec(TRUE, <<"a", "b">>, FALSE, <<>>, TRUE, <<"b">>, <<>>),
      Rec(TRUE, <<"b">>, TRUE, <<>>, TRUE, <<>>, <<>>),
      Rec(TRUE, <<"A">>, TRUE, <<"a", "b">>, FALSE, <<>>, <<>>),
      Rec(TRUE, <<"b", "a">>, FALSE, <<>>, FALSE, <<>>, <<>>),
      Rec(FALSE, <<>>, TRUE, <<"a">>, FALSE, <<>>, <<"a", "b">>) }

TermUniverse == { <<>>, <<"a">>, <<"A">>, <<"b">>, <<"a", "b">> }

IdUniverse == { <<"a", "b">>, <<"b">>, <<"A">>, <<"b", "b">> }

\* What one read of the store meets.
Store(outcome, records) == [outcome |-> outcome, records |-> records]

FailureOutcomes == {"openFail", "queryFail", "noRow", "badJson", "noEntries"}

\* Inputs of the pure-function specification.
PureStores == { Store("ok", rs) : rs \in SeqsUpTo(RecordUniverse, MaxRecs) }

PureTerms == SeqsUpTo(TermUniverse, MaxTerms)

PureIds == SeqsUpTo(IdUniverse, MaxIds)

\* Inputs of the life-cycle specification: a readable store searched for a
\* term that matches its first record or for one that matches both, and each
\* way a read can fail.
LifeRecords ==
    << Rec(TRUE, <<"a", "b">>, TRUE, <<"A">>, FALSE, <<>>, <<>>),
       Rec(TRUE, <<"b">>, FALSE, <<>>, TRUE, <<"b">>, <<>>) >>

Search(terms, st) == [terms |-> terms, st |-> st]

LifeSearches ==
    { Search(<< <<"a">> >>, Store(o, <<>>)) : o \in FailureOutcomes }
    \cup { Search(<< t >>, Store("ok", LifeRecords)) : t \in {<<"a">>, <<"b">>} }

LifeIds == { << <<"a", "b">> >>, << <<"b", "b">>, <<"b">> >> }

----------------------------------------------------------------------------
\* Promises and cancellation tokens.  A call record carries the promise
\* handed to the host (state, value, error), the token (cancelled) and the
\* subscription to it (subscribed).

Resolve(c, v) ==
    IF c.state = "pending" THEN [c EXCEPT !.state = "resolved", !.value = v]
    ELSE c

Reject(c, msg) ==
    IF c.state = "pending" THEN [c EXCEPT !.state = "rejected", !.error = msg]
    ELSE c

SearchCancelHandlerResolvesEmpty(c) == Resolve(c, <<>>)

\* () => reject(Error("Search Cancelled"))
SearchCancelHandler(c) == Reject(c, "Search Cancelled")

MetasCancelHandlerIgnores(c) == c

\* () => reject(Error("Operation Cancelled"))
MetasCancelHandler(c) == Reject(c, "Operation Cancelled")

\* cancellable.connect(handler): a token that is already cancelled runs the
\* handler at once and subscribes nothing.  fired is c after the handler ran.
Connect(c, fired) ==
    IF c.cancelled THEN fired ELSE [c EXCEPT !.subscribed = TRUE]

\* cancellable.disconnect(cancelledId)
Disconnect(c) == [c EXCEPT !.subscribed = FALSE]

\* cancellable.cancel() by the host: the subscribed handler runs.
CancelToken(c) ==
    LET c1 == [c EXCEPT !.cancelled = TRUE]
    IN  IF c.subscribed THEN SearchCancelHandler(c1) ELSE c1

NewCall(op, results, terms, maxResults, cancellable, st, cache) ==
    [op |-> op, results |-> results, terms |-> terms,
     maxResults |-> maxResults,
     outcome |-> st.outcome, records |-> st.records,
     atCall |-> cancellable, cancelled |-> cancellable,
     subscribed |-> FALSE, storeAccess |-> FALSE, connOpen |-> FALSE,
     ret |-> "none", state |-> "pending", value |-> <<>>,
     error |-> "none", done |-> FALSE,
     before |-> cache, after |-> cache,
     rank |-> 0, seen |-> 0]

NoStore == Store("none", <<>>)

NoCall == NewCall("none", <<>>, <<>>, 0, FALSE, NoStore, <<>>)

----------------------------------------------------------------------------
\* _getHistoryEntries

TermLoopUriOnly(entry, searchTerms) ==
    \E k \in 1..Len(searchTerms) : Includes(entry.folderUri, searchTerms[k])

\* for (const term of searchTerms) { ... include = true; break; }
TermLoop(entry, searchTerms) ==
    LET RECURSIVE Loop(_)
        Loop(ts) ==
            IF ts = <<>> THEN FALSE
            ELSE IF entry.hasLabel /\ Includes(entry.label, Head(ts)) THEN TRUE
            ELSE IF Includes(entry.folderUri, Head(ts)) THEN TRUE
            ELSE Loop(Tail(ts))
    IN  Loop(searchTerms)

NormalizeEntryNullish(entry) ==
    [uri |-> entry.folderUri,
     title |-> IF entry.hasLabel THEN entry.label ELSE entry.folderUri,
     remote |-> IF entry.hasRemoteAuthority THEN entry.remoteAuthority
                ELSE Local,
     remoteType |-> IF entry.hasRemoteAuthority THEN "remote" ELSE "local"]

\* The object pushed on this._historyEntries; x || y takes y for an absent
\* or empty x.
NormalizeEntry(entry) ==
    LET label == entry.hasLabel /\ entry.label # <<>>
        remote == entry.hasRemoteAuthority /\ entry.remoteAuthority # <<>>
    IN  [uri |-> entry.folderUri,
         title |-> IF label THEN entry.label ELSE entry.folderUri,
         remote |-> IF remote THEN entry.remoteAuthority ELSE Local,
         remoteType |-> IF remote THEN "remote" ELSE "local"]

\* while (result.entries.length > 0) { const entry = result.entries.shift(); ... }
EntriesLoop(records, searchTerms) ==
    LET RECURSIVE Loop(_, _)
        Loop(rs, acc) ==
            IF rs = <<>> THEN acc
            ELSE LET entry == Head(rs)
                 IN  IF entry.hasFolderUri /\ TermLoop(entry, searchTerms)
                     THEN Loop(Tail(rs), Append(acc, NormalizeEntry(entry)))
                     ELSE Loop(Tail(rs), acc)
    IN  Loop(records, <<>>)

GetHistoryEntriesKeepsCache(searchTerms, st, cache) ==
    IF st.outcome = "ok"
    THEN [entries |-> cache \o EntriesLoop(st.records, searchTerms),
          ret |-> "cache", connOpen |-> FALSE]
    ELSE [entries |-> cache,
          ret |-> IF st.outcome \in {"openFail", "noRow"} THEN "empty"
                  ELSE "error",
          connOpen |-> st.outcome \in {"queryFail", "noRow", "badJson"}]

\* The whole of _getHistoryEntries on one read of the store.  entries is
\* this._historyEntries at return; ret says what the returned promise holds:
\* "cache" the this._historyEntries array itself, "empty" a fresh [],
\* "error" a rejection; connOpen says whether the connection is left open.
GetHistoryEntries(searchTerms, st, cache) ==
    IF st.outcome = "openFail"
    THEN [entries |-> cache, ret |-> "empty", connOpen |-> FALSE]
    ELSE IF st.outcome = "queryFail"
    THEN [entries |-> <<>>, ret |-> "error", connOpen |-> TRUE]
    ELSE IF st.outcome = "noRow"
    THEN [entries |-> <<>>, ret |-> "empty", connOpen |-> TRUE]
    ELSE IF st.outcome = "badJson"
    THEN [entries |-> <<>>, ret |-> "error", connOpen |-> TRUE]
    ELSE IF st.outcome = "noEntries"
    THEN [entries |-> <<>>, ret |-> "error", connOpen |-> FALSE]
    ELSE [entries |-> EntriesLoop(st.records, searchTerms),
          ret |-> "cache", connOpen |-> FALSE]

----------------------------------------------------------------------------
\* getInitialResultSet, getSubsearchResultSet and their callbacks

\* The synchronous part: subscribe, run _getHistoryEntries, attach callbacks.
GetInitialResultSet(op, results, terms, cancellable, st, cache) ==
    LET new == NewCall(op, results, terms, 0, cancellable, st, cache)
        c0 == Connect(new, SearchCancelHandler(new))
        r == GetHistoryEntries(terms, st, cache)
    IN  [call |-> [c0 EXCEPT !.storeAccess = TRUE, !.connOpen = r.connOpen,
                             !.ret = r.ret],
         cache |-> r.entries]

GetSubsearchNoCheck(results, terms, cancellable, st, cache) ==
    GetInitialResultSet("getSubsearchResultSet", results, terms,
                        cancellable, st, cache)

GetSubsearchResultSet(results, terms, cancellable, st, cache) ==
    IF cancellable
    THEN [call |-> [NewCall("getSubsearchResultSet", results, terms, 0,
                            cancellable, NoStore, cache)
                       EXCEPT !.state = "thrown",
                              !.error = "Search Cancelled",
                              !.done = TRUE],
          cache |-> cache]
    ELSE GetInitialResultSet("getSubsearchResultSet", results, terms,
                             cancellable, st, cache)

ThenCallbackKeepsSubscription(c, entries) ==
    LET c1 == [c EXCEPT !.done = TRUE]
    IN  IF ~c1.cancelled THEN Resolve(c1, Uris(entries)) ELSE c1

\* .then((entries) => { ... })
ThenCallback(c, entries) ==
    LET identifiers == Uris(entries)
        c1 == [Disconnect(c) EXCEPT !.done = TRUE]
    IN  IF ~c1.cancelled THEN Resolve(c1, identifiers) ELSE c1

CatchCallbackRejects(c) ==
    Reject([Disconnect(c) EXCEPT !.done = TRUE], "Error")

\* .catch((_error) => { ... })
CatchCallback(c) ==
    LET c1 == [Disconnect(c) EXCEPT !.done = TRUE]
    IN  IF ~c1.cancelled THEN Resolve(c1, <<>>) ELSE c1

----------------------------------------------------------------------------
\* getResultMetas, filterResults, activateResult

FindByTitle(cache, identifier) ==
    LET hits == {i \in 1..Len(cache) : cache[i].title = identifier}
    IN  IF hits = {} THEN 0
        ELSE CHOOSE i \in hits : \A j \in hits : i <= j

\* this._historyEntries.find((entry) => entry.uri === identifier)
Find(cache, identifier) ==
    LET hits == {i \in 1..Len(cache) : cache[i].uri = identifier}
    IN  IF hits = {} THEN 0
        ELSE CHOOSE i \in hits : \A j \in hits : i <= j

Meta(identifier, historyEntry) ==
    [id |-> identifier, name |-> historyEntry.title,
     description |-> historyEntry.uri, clipboardText |-> historyEntry.uri]

MetasLoopNoSkip(results, cache) ==
    [i \in 1..Len(results) |->
        LET k == Find(cache, results[i])
        IN  IF k = 0
            THEN [id |-> results[i], name |-> results[i],
                  description |-> results[i], clipboardText |-> results[i]]
            ELSE Meta(results[i], cache[k])]

\* for (const identifier of results) { ... resultMetas.push(meta); }
MetasLoop(results, cache) ==
    LET RECURSIVE Loop(_, _)
        Loop(ids, resultMetas) ==
            IF ids = <<>> THEN resultMetas
            ELSE LET k == Find(cache, Head(ids))
                 IN  IF k = 0 THEN Loop(Tail(ids), resultMetas)
                     ELSE Loop(Tail(ids),
                               Append(resultMetas, Meta(Head(ids), cache[k])))
    IN  Loop(results, <<>>)

GetResultMetas(results, cancellable, cache) ==
    LET new == NewCall("getResultMetas", results, <<>>, 0, cancellable,
                       NoStore, cache)
        h0 == Connect(new, MetasCancelHandler(new))
        resultMetas == MetasLoop(results, cache)
        h1 == [Disconnect(h0) EXCEPT !.done = TRUE]
    IN  IF ~h1.cancelled THEN Resolve(h1, resultMetas) ELSE h1

FilterResultsOffByOne(results, maxResults) ==
    IF Len(results) <= maxResults THEN results
    ELSE Slice(results, 0, maxResults + 1)

FilterResults(results, maxResults) ==
    IF Len(results) <= maxResults THEN results
    ELSE Slice(results, 0, maxResults)

CacheAfterHostCallConsumes(op, results, cache) ==
    IF op = "getResultMetas"
    THEN SelectSeq(cache, LAMBDA e : \A k \in 1..Len(results) :
                                        results[k] # e.uri)
    ELSE cache

\* What a call of getResultMetas, filterResults or activateResult leaves in
\* this._historyEntries: find() only reads it, the other two never name it.
CacheAfterHostCall(op, results, cache) == cache

----------------------------------------------------------------------------
\* Actions

\* Book-keeping of a completion: rank is the position of the call in the
\* order of completions, seen the number of searches invoked by then.
Completed(c) ==
    [c EXCEPT !.rank = Cardinality({j \in 1..Len(calls) : calls[j].rank > 0}) + 1,
              !.seen = Len(calls)]

Init ==
    /\ historyEntries = <<>>
    /\ calls = <<>>
    /\ jobs = <<>>
    /\ host = NoCall
    /\ invoked = 0

Job(i, stage) == [call |-> i, stage |-> stage]

\* The host calls getInitialResultSet(terms, cancellable).
InitialSearch(terms, cancellable, st) ==
    LET r == GetInitialResultSet("getInitialResultSet", <<>>, terms,
                                 cancellable, st, historyEntries)
    IN  /\ calls' = Append(calls, [r.call EXCEPT !.after = r.cache])
        /\ historyEntries' = r.cache
        /\ jobs' = Append(jobs, Job(Len(calls) + 1, "then"))
        /\ invoked' = invoked + 1
        /\ UNCHANGED host

\* The host calls getSubsearchResultSet(results, terms, cancellable).
Subsearch(results, terms, cancellable, st) ==
    LET r == GetSubsearchResultSet(results, terms, cancellable, st,
                                   historyEntries)
    IN  /\ calls' = Append(calls, [r.call EXCEPT !.after = r.cache])
        /\ historyEntries' = r.cache
        /\ jobs' = IF r.call.state = "thrown" THEN jobs
                   ELSE Append(jobs, Job(Len(calls) + 1, "then"))
        /\ invoked' = invoked + 1
        /\ UNCHANGED host

\* The host cancels the token of a search that has not completed.
Cancel(i) ==
    /\ ~calls[i].done
    /\ ~calls[i].cancelled
    /\ calls' = [calls EXCEPT ![i] = CancelToken(calls[i])]
    /\ UNCHANGED <<historyEntries, jobs, host, invoked>>

\* The then-callback of a fulfilled _getHistoryEntries promise runs.  A
\* promise fulfilled with this._historyEntries hands the callback the array
\* as it is now.
ThenJob ==
    /\ jobs # <<>>
    /\ Head(jobs).stage = "then"
    /\ LET i == Head(jobs).call
           c == calls[i]
       IN  /\ c.ret # "error"
           /\ calls' = [calls EXCEPT ![i] = Completed(
                  ThenCallback(c, IF c.ret = "cache" THEN historyEntries
                                  ELSE <<>>))]
    /\ jobs' = Tail(jobs)
    /\ UNCHANGED <<historyEntries, host, invoked>>

\* then() has no rejection handler: the rejection passes to the promise
\* catch() is attached to, whose reaction is queued behind the waiting jobs.
PassRejection ==
    /\ jobs # <<>>
    /\ Head(jobs).stage = "then"
    /\ calls[Head(jobs).call].ret = "error"
    /\ jobs' = Append(Tail(jobs), Job(Head(jobs).call, "catch"))
    /\ UNCHANGED <<historyEntries, calls, host, invoked>>

\* The catch-callback runs.
CatchJob ==
    /\ jobs # <<>>
    /\ Head(jobs).stage = "catch"
    /\ LET i == Head(jobs).call
       IN  calls' = [calls EXCEPT ![i] = Completed(CatchCallback(calls[i]))]
    /\ jobs' = Tail(jobs)
    /\ UNCHANGED <<historyEntries, host, invoked>>

\* A synchronous host call: its outcome is kept in host, with the cache it
\* left and the number of searches invoked before it.
HostCall(h) ==
    LET cache == CacheAfterHostCall(h.op, h.results, historyEntries)
    IN  /\ host' = [h EXCEPT !.after = cache, !.seen = Len(calls)]
        /\ historyEntries' = cache
        /\ invoked' = invoked + 1
        /\ UNCHANGED <<calls, jobs>>

\* The host calls getResultMetas(results, cancellable).
ResolveMetas(results, cancellable) ==
    HostCall(GetResultMetas(results, cancellable, historyEntries))

\* The host calls filterResults(results, maxResults).
Truncate(results, maxResults) ==
    HostCall([NewCall("filterResults", results, <<>>, maxResults, FALSE,
                      NoStore, historyEntries)
                 EXCEPT !.state = "returned",
                        !.value = FilterResults(results, maxResults),
                        !.done = TRUE])

\* The host calls activateResult(result, terms): the editor is spawned on
\* the folder named by result.
Activate(result, terms) ==
    HostCall([NewCall("activateResult", <<result>>, terms, 0, FALSE,
                      NoStore, historyEntries)
                 EXCEPT !.state = "returned", !.done = TRUE])

----------------------------------------------------------------------------
\* Specifications

\* Identifier lists the host may hand back: its own, or a list a search gave it.
HostIds ==
    LifeIds \cup {calls[i].value : i \in {j \in 1..Len(calls) :
                                            calls[j].state = "resolved"}}

\* The life cycle: overlapping searches, cancellation, every store failure.
Next ==
    \/ /\ invoked < MaxCalls
       /\ \E s \in LifeSearches, cancellable \in BOOLEAN :
              InitialSearch(s.terms, cancellable, s.st)
    \/ /\ invoked < MaxCalls
       /\ \E s \in LifeSearches, cancellable \in BOOLEAN :
              Subsearch(<< <<"a", "b">> >>, s.terms, cancellable, s.st)
    \/ \E i \in 1..Len(calls) : Cancel(i)
    \/ ThenJob
    \/ PassRejection
    \/ CatchJob
    \/ /\ invoked < MaxCalls
       /\ \E results \in HostIds, cancellable \in BOOLEAN :
              ResolveMetas(results, cancellable)
    \/ /\ invoked < MaxCalls
       /\ \E results \in LifeIds, maxResults \in 1..2 :
              Truncate(results, maxResults)
    \/ /\ invoked < MaxCalls
       /\ Activate(<<"b">>, << <<"b">> >>)

Spec == Init /\ [][Next]_vars

\* The event loop runs every queued promise reaction.
FairSpec ==
    Spec /\ WF_vars(ThenJob) /\ WF_vars(PassRejection) /\ WF_vars(CatchJob)

\* The matcher and the truncation on their whole input space: one search of
\* a readable store, or one truncation.
NextPure ==
    \/ /\ invoked = 0
       /\ \E terms \in PureTerms, st \in PureStores :
              InitialSearch(terms, FALSE, st)
    \/ ThenJob
    \/ /\ invoked = 0
       /\ \E results \in PureIds, maxResults \in (-1)..MaxN :
              Truncate(results, maxResults)

SpecPure == Init /\ [][NextPure]_vars

\* Metadata resolution on its whole input space: a one-term search of a
\* readable store fills the cache, then one resolution of an identifier list.
NextMetas ==
    \/ /\ invoked = 0
       /\ \E t \in TermUniverse, st \in PureStores :
              InitialSearch(<<t>>, FALSE, st)
    \/ ThenJob
    \/ /\ host.op = "none"
       /\ jobs = <<>>
       /\ \E results \in PureIds, cancellable \in BOOLEAN :
              ResolveMetas(results, cancellable)

SpecMetas == Init /\ [][NextMetas]_vars

----------------------------------------------------------------------------
\* Properties

CallIds == 1..Len(calls)

IsInitial(c) == c.op = "getInitialResultSet"

IsSubsearch(c) == c.op = "getSubsearchResultSet"

\* At least one term is a substring of the label (if present) or the folderUri.
Matches(r, T) ==
    \E k \in 1..Len(T) :
        \/ r.hasLabel /\ Includes(r.label, T[k])
        \/ Includes(r.folderUri, T[k])

FolderUris(R) ==
    LET sel == SelectSeq(R, LAMBDA r : r.hasFolderUri)
    IN  [i \in 1..Len(sel) |-> sel[i].folderUri]

MatchingUris(R, T) ==
    LET sel == SelectSeq(R, LAMBDA r : r.hasFolderUri /\ Matches(r, T))
    IN  [i \in 1..Len(sel) |-> sel[i].folderUri]

\* C1: a search with an empty term list yields every record that carries a
\* folderUri, unfiltered, in store order.
C1_EmptyTermsYieldAllFolders ==
    \A i \in CallIds :
        (calls[i].ret = "cache" /\ calls[i].terms = <<>>)
            => Uris(calls[i].after) = FolderUris(calls[i].records)

\* C2 as stated: when the token of getInitialResultSet is cancelled before
\* the search completes, the promise resolves with the empty list.
C2_CancelResolvesEmpty ==
    \A i \in CallIds :
        (IsInitial(calls[i]) /\ calls[i].cancelled /\ calls[i].done)
            => (calls[i].state = "resolved" /\ calls[i].value = <<>>)

\* C2 as amended: when the token of getInitialResultSet is cancelled before
\* the search completes (already at the call, or while the callback waits),
\* the promise is rejected with Search Cancelled and is never resolved.
C2_CancelRejects ==
    \A i \in CallIds :
        (IsInitial(calls[i]) /\ calls[i].cancelled)
            => (calls[i].state = "rejected"
                /\ calls[i].error = "Search Cancelled")

C2_Witness ==
    \E i \in CallIds :
        /\ IsInitial(calls[i])
        /\ calls[i].cancelled /\ ~calls[i].atCall
        /\ calls[i].ret = "cache" /\ calls[i].after # <<>>
        /\ calls[i].done
        /\ calls[i].state = "rejected"

\* C3: getSubsearchResultSet called with an already cancelled token fails
\* with Search Cancelled, does not open or query the store and leaves the
\* entry cache as it was.
C3_CancelledSubsearchThrows ==
    \A i \in CallIds :
        (IsSubsearch(calls[i]) /\ calls[i].atCall)
            => /\ calls[i].state = "thrown"
               /\ calls[i].error = "Search Cancelled"
               /\ ~calls[i].storeAccess
               /\ calls[i].after = calls[i].before

C3_Witness ==
    \E i \in CallIds :
        /\ IsSubsearch(calls[i]) /\ calls[i].atCall
        /\ calls[i].state = "thrown"
        /\ calls[i].before # <<>>
        /\ historyEntries = calls[i].before

\* C4: an uncancelled getResultMetas(ids) resolves with one meta per element
\* of ids that is the uri of a cache entry, in input order, with that entry's
\* title as name and its uri as description; other identifiers are skipped.
C4_MetasAreCacheHits ==
    (host.op = "getResultMetas" /\ ~host.cancelled)
        => /\ host.state = "resolved"
           /\ LET cache == host.before
                  InCache(id) == \E j \in 1..Len(cache) : cache[j].uri = id
                  hits == SelectSeq(host.results, InCache)
                  m == host.value
              IN  /\ Len(m) = Len(hits)
                  /\ Len(m) <= Len(host.results)
                  /\ \A i \in 1..Len(m) :
                        /\ m[i].id = hits[i]
                        /\ m[i].description = hits[i]
                        /\ \E j \in 1..Len(cache) :
                              /\ cache[j].uri = m[i].id
                              /\ cache[j].title = m[i].name

C4_Witness ==
    /\ host.op = "getResultMetas" /\ ~host.cancelled
    /\ host.state = "resolved"
    /\ Len(host.results) = 2
    /\ Len(host.value) = 1
    /\ host.value[1].id = host.results[2]
    /\ host.value[1].name # host.value[1].id

\* C5: getResultMetas whose token is cancelled before resolution finishes is
\* rejected with Operation Cancelled and never resolved with a meta list.
C5_CancelledMetasReject ==
    (host.op = "getResultMetas" /\ host.cancelled)
        => (host.state = "rejected" /\ host.error = "Operation Cancelled")

C5_Witness ==
    /\ host.op = "getResultMetas" /\ host.cancelled
    /\ host.state = "rejected"
    /\ \E i \in 1..Len(host.results) :
          \E j \in 1..Len(host.before) : host.before[j].uri = host.results[i]

\* C6: an uncancelled getInitialResultSet whose store read fails (open,
\* query, JSON decode, no entries list) resolves with [] and is never
\* rejected; nothing is thrown at the host.
C6_FailuresResolveEmpty ==
    \A i \in CallIds :
        (IsInitial(calls[i]) /\ ~calls[i].cancelled
            /\ calls[i].outcome \in FailureOutcomes)
            => /\ calls[i].state \in {"pending", "resolved"}
               /\ calls[i].done => calls[i].state = "resolved"
               /\ calls[i].state = "resolved" => calls[i].value = <<>>

C6_Witness ==
    \E i \in CallIds :
        /\ IsInitial(calls[i]) /\ ~calls[i].cancelled
        /\ calls[i].outcome = "badJson"
        /\ calls[i].done
        /\ calls[i].state = "resolved" /\ calls[i].value = <<>>

\* C7: after every search that runs the pipeline, whatever the outcome of
\* the store read, the entry cache holds only the matches of that request.
C7_CacheHoldsOnlyLatest ==
    \A i \in CallIds :
        calls[i].storeAccess
            => Uris(calls[i].after) =
                  IF calls[i].outcome = "ok"
                  THEN MatchingUris(calls[i].records, calls[i].terms)
                  ELSE <<>>

\* C8: no two entries of the entry cache have the same uri.
C8_UniqueUris ==
    \A i, j \in 1..Len(historyEntries) :
        i # j => historyEntries[i].uri # historyEntries[j].uri

\* C9: for a non-empty term list the entries produced are exactly the
\* records that carry folderUri and have a term as a case-sensitive substring
\* of their label (if present) or folderUri, in store order.
C9_EntriesAreMatchingFolders ==
    \A i \in CallIds :
        (calls[i].ret = "cache" /\ calls[i].terms # <<>>)
            => Uris(calls[i].after) =
                  MatchingUris(calls[i].records, calls[i].terms)

C9_Witness ==
    \E i \in CallIds :
        /\ calls[i].ret = "cache"
        /\ Len(calls[i].terms) = 2
        /\ Len(calls[i].records) = 2
        /\ ~calls[i].records[1].hasFolderUri
        /\ Matches(calls[i].records[1], calls[i].terms)
        /\ ~Includes(calls[i].records[2].folderUri, calls[i].terms[1])
        /\ ~Includes(calls[i].records[2].folderUri, calls[i].terms[2])
        /\ Len(calls[i].after) = 1

\* C10: filterResults(ids, n) with n >= 0 is the first min(len(ids), n)
\* identifiers of ids in order, and truncating its result again changes
\* nothing.
C10_TruncateIsPrefix ==
    (host.op = "filterResults" /\ host.maxResults >= 0)
        => /\ host.value =
                 SubSeq(host.results, 1,
                        Min(Len(host.results), host.maxResults))
           /\ FilterResults(host.value, host.maxResults) = host.value

C10_Witness ==
    /\ host.op = "filterResults"
    /\ host.maxResults >= 1
    /\ Len(host.results) > host.maxResults
    /\ Len(host.value) = host.maxResults

\* The uris of the folder records a search's own terms match in the store it
\* read: none when the read failed.
OwnUris(c) ==
    IF c.outcome = "ok" THEN MatchingUris(c.records, c.terms) ELSE <<>>

Settled(c) == c.state \in {"resolved", "rejected"}

\* C11: the identifiers an uncancelled getSubsearchResultSet(results, terms)
\* resolves with are a subset of results.
C11_SubsearchIsSubset ==
    \A i \in CallIds :
        (IsSubsearch(calls[i]) /\ ~calls[i].cancelled
            /\ calls[i].state = "resolved")
            => \A k \in 1..Len(calls[i].value) :
                  \E m \in 1..Len(calls[i].results) :
                      calls[i].results[m] = calls[i].value[k]

\* C12: every invocation of getInitialResultSet, getSubsearchResultSet and
\* getResultMetas ends as a resolved or a rejected promise: none stays
\* pending for ever and no failure reaches the host in another form.
C12_EveryInvocationSettles ==
    /\ \A i \in 1..MaxCalls :
          [](Len(calls) >= i => <>(Len(calls) >= i /\ Settled(calls[i])))
    /\ [](host.op = "getResultMetas" => Settled(host))

\* C13: every store connection a search call opens is closed before the
\* call returns, on every exit path.
C13_ConnectionsClosed ==
    \A i \in CallIds : ~calls[i].connOpen

\* C14: every search promise that resolves does so with the uris of the
\* folder records its own terms match, also when another search is invoked
\* between its store read and its completion callback.
C14_ResolvesWithOwnMatches ==
    \A i \in CallIds :
        calls[i].state = "resolved" => calls[i].value = OwnUris(calls[i])

\* The last search that got past opening the store, 0 if there is none: the
\* searches that write this._historyEntries.
LastWriter ==
    LET W == {i \in CallIds : calls[i].storeAccess
                                /\ calls[i].outcome # "openFail"}
    IN  IF W = {} THEN 0 ELSE CHOOSE i \in W : \A j \in W : j <= i

\* C15 as stated: the entry cache is last-writer-wins by completion order:
\* once an earlier-invoked search has completed after a later-invoked one,
\* the cache holds the earlier search's matches.
C15_LastCompletionWins ==
    \A i, j \in CallIds :
        (i < j /\ jobs = <<>> /\ calls[j].rank > 0
            /\ calls[i].rank > calls[j].rank)
            => Uris(historyEntries) = OwnUris(calls[i])

\* C15 as amended: the entry cache is last-writer-wins by invocation order:
\* whatever the order of completions, it holds the matches of the most
\* recently invoked search whose store connection opened.
C15_LastInvocationWins ==
    Uris(historyEntries) =
        IF LastWriter = 0 THEN <<>> ELSE OwnUris(calls[LastWriter])

C15_Witness ==
    \E i, j \in CallIds :
        /\ i < j /\ jobs = <<>>
        /\ calls[j].rank > 0 /\ calls[i].rank > calls[j].rank
        /\ j = LastWriter
        /\ OwnUris(calls[j]) # OwnUris(calls[i])
        /\ Uris(historyEntries) = OwnUris(calls[j])

\* C16: a search subscribes to its token once at entry and has disconnected
\* when its callback has run; getResultMetas has disconnected when it
\* returns; with no operation pending no subscription is connected.
C16_SubscriptionsReleased ==
    /\ \A i \in CallIds :
          /\ calls[i].done => ~calls[i].subscribed
          /\ (~calls[i].done /\ ~calls[i].atCall) => calls[i].subscribed
    /\ ~host.subscribed
    /\ jobs = <<>> => \A i \in CallIds : ~calls[i].subscribed

C16_Witness ==
    \E i \in CallIds :
        /\ IsInitial(calls[i])
        /\ ~calls[i].atCall /\ calls[i].cancelled
        /\ calls[i].ret = "cache"
        /\ calls[i].done /\ ~calls[i].subscribed
        /\ jobs = <<>>

\* C17: getResultMetas, filterResults and activateResult leave the entry
\* cache as it was, whether or not the token is cancelled.
C17_HostCallsKeepCache ==
    host.op \in {"getResultMetas", "filterResults", "activateResult"}
        => host.after = host.before

C17_Witness ==
    /\ host.op = "getResultMetas"
    /\ host.state = "resolved"
    /\ Len(host.value) >= 1
    /\ host.after # <<>>
    /\ historyEntries = host.before

\* The folder records of c's store that c's terms match.
Selected(c) ==
    SelectSeq(c.records, LAMBDA r : r.hasFolderUri /\ Matches(r, c.terms))

\* C18 as stated: the cached entry of a matching folder record has
\* uri = folderUri, title = the label if the record has one, else folderUri,
\* remote = the remoteAuthority with remoteType "remote" if the record has
\* one, else "local" with remoteType "local".
C18_NormalizedByPresence ==
    \A i \in CallIds :
        calls[i].ret = "cache"
            => LET sel == Selected(calls[i])
                   e == calls[i].after
               IN  /\ Len(e) = Len(sel)
                   /\ \A k \in 1..Len(e) :
                         /\ e[k].uri = sel[k].folderUri
                         /\ e[k].title = IF sel[k].hasLabel THEN sel[k].label
                                         ELSE sel[k].folderUri
                         /\ e[k].remote = IF sel[k].hasRemoteAuthority
                                          THEN sel[k].remoteAuthority
                                          ELSE Local
                         /\ e[k].remoteType = IF sel[k].hasRemoteAuthority
                                              THEN "remote" ELSE "local"

\* C18 as amended: an empty label counts as no label and an empty
\* remoteAuthority as no remoteAuthority.
C18_NormalizedByTruthiness ==
    \A i \in CallIds :
        calls[i].ret = "cache"
            => LET sel == Selected(calls[i])
                   e == calls[i].after
               IN  /\ Len(e) = Len(sel)
                   /\ \A k \in 1..Len(e) :
                         LET noLabel == ~sel[k].hasLabel \/ sel[k].label = <<>>
                             noRemote == \/ ~sel[k].hasRemoteAuthority
                                         \/ sel[k].remoteAuthority = <<>>
                         IN  /\ e[k].uri = sel[k].folderUri
                             /\ noLabel => e[k].title = sel[k].folderUri
                             /\ ~noLabel => e[k].title = sel[k].label
                             /\ noRemote => (e[k].remote = Local
                                             /\ e[k].remoteType = "local")
                             /\ ~noRemote
                                  => (e[k].remote = sel[k].remoteAuthority
                                      /\ e[k].remoteType = "remote")

C18_Witness ==
    \E i \in CallIds :
        /\ calls[i].ret = "cache"
        /\ Len(calls[i].after) = 2
        /\ LET sel == Selected(calls[i])
           IN  /\ sel[1].hasLabel /\ sel[1].label = <<>>
               /\ sel[1].hasRemoteAuthority /\ sel[1].remoteAuthority = <<>>
               /\ sel[2].hasRemoteAuthority /\ sel[2].remoteAuthority # <<>>
        /\ calls[i].after[1].title = calls[i].after[1].uri
        /\ calls[i].after[2].remoteType = "remote"

\* C19: when an uncancelled search has resolved with ids and no search is
\* invoked after that, an uncancelled getResultMetas(ids) resolves with
\* len(ids) metas whose ids are ids, element by element.
C19_ResolvedIdsAreResolvable ==
    \A i \in CallIds :
        (/\ calls[i].state = "resolved" /\ ~calls[i].cancelled
         /\ host.op = "getResultMetas" /\ ~host.cancelled
         /\ host.results = calls[i].value
         /\ host.seen = calls[i].seen)
            => /\ host.state = "resolved"
               /\ Len(host.value) = Len(host.results)
               /\ \A k \in 1..Len(host.value) :
                     host.value[k].id = host.results[k]

C19_Witness ==
    \E i \in CallIds :
        /\ calls[i].state = "resolved" /\ ~calls[i].cancelled
        /\ Len(calls[i].value) = 2
        /\ host.op = "getResultMetas" /\ ~host.cancelled
        /\ host.results = calls[i].value
        /\ host.seen = calls[i].seen
        /\ Len(host.value) = 2

====
